---- MODULE Spec2Model ----
(***************************************************************************)
(* hook_post_event of src/windows/post_event.c: the event injector of      *)
(* libuiohook on Windows.  One call of hook_post_event is one atomic step. *)
(* The state holds what the last call observed and did (the event, the     *)
(* screen metrics, the INPUT record, the calls it made in order) and what  *)
(* accumulates over calls (records still on the heap, SendInput calls).    *)
(***************************************************************************)
EXTENDS Integers, Sequences, FiniteSets

(* ---------------------------------------------------------------- bounds *)
MaxCalls == 2          \* calls of hook_post_event in one behaviour
MaxButton == 7         \* mouse button ordinals 0..MaxButton
MaxAmount == 3         \* wheel amount 0..MaxAmount
MaxRotation == 2       \* wheel rotation -MaxRotation..MaxRotation
MaxCoord == 4          \* small coordinates -MaxCoord..MaxCoord
MaxScreen == 5         \* small screen sizes 1..MaxScreen

(* ------------------------------------------------------ program constants *)
KEYEVENTF_EXTENDEDKEY == 1
KEYEVENTF_KEYUP == 2
KEYEVENTF_KEYDOWN == 0
MAX_WINDOWS_COORD_VALUE == 65536

\* winuser.h values of the names the code uses
INPUT_MOUSE == 0
INPUT_KEYBOARD == 1
MOUSEEVENTF_MOVE == 1
MOUSEEVENTF_LEFTDOWN == 2
MOUSEEVENTF_LEFTUP == 4
MOUSEEVENTF_RIGHTDOWN == 8
MOUSEEVENTF_RIGHTUP == 16
MOUSEEVENTF_MIDDLEDOWN == 32
MOUSEEVENTF_MIDDLEUP == 64
MOUSEEVENTF_XDOWN == 128
MOUSEEVENTF_XUP == 256
MOUSEEVENTF_WHEEL == 2048
MOUSEEVENTF_ABSOLUTE == 32768
XBUTTON1 == 1
XBUTTON2 == 2
WHEEL_DELTA == 120
VK_PRIOR == 33
VK_NEXT == 34
VK_END == 35
VK_HOME == 36
VK_LEFT == 37
VK_UP == 38
VK_RIGHT == 39
VK_DOWN == 40
VK_INSERT == 45
VK_DELETE == 46

\* uiohook.h values of the names the code uses
EVENT_HOOK_ENABLED == 1
EVENT_HOOK_DISABLED == 2
EVENT_KEY_TYPED == 3
EVENT_KEY_PRESSED == 4
EVENT_KEY_RELEASED == 5
EVENT_MOUSE_CLICKED == 6
EVENT_MOUSE_PRESSED == 7
EVENT_MOUSE_RELEASED == 8
EVENT_MOUSE_MOVED == 9
EVENT_MOUSE_DRAGGED == 10
EVENT_MOUSE_WHEEL == 11
MOUSE_BUTTON1 == 1
MOUSE_BUTTON2 == 2
MOUSE_BUTTON3 == 3
MOUSE_BUTTON4 == 4
MOUSE_BUTTON5 == 5
MASK_SHIFT_L == 1
MASK_SHIFT_R == 16
MASK_CTRL_L == 2
MASK_SHIFT == {MASK_SHIFT_L, MASK_SHIFT_R}

\* widths of the C types involved
WORD_RANGE == 65536
INT16_MAX == 32767
UINT16_MAX == 65535

\* a virtual key outside extend_key_table ('A')
VK_A == 65

(* -------------------------------------------------------------- the state *)
VARIABLES
    event,          \* the event of the last call
    screen_width,   \* GetSystemMetrics(SM_CXSCREEN) of the last call
    screen_height,  \* GetSystemMetrics(SM_CYSCREEN) of the last call
    input,          \* the local pointer "input" when the last call returned
    trace,          \* calloc, logger and SendInput calls of the last call, in order
    submitted,      \* the SendInput calls of the last call, with their arguments
    allocated,      \* INPUT records on the heap (calloc'ed and not freed)
    submissions,    \* SendInput calls over all calls
    expected,       \* calls with a supported tag whose calloc succeeded
    calls           \* calls of hook_post_event so far

vars == <<event, screen_width, screen_height, input, trace, submitted,
          allocated, submissions, expected, calls>>

(* ------------------------------------------------------------ C arithmetic *)
\* dwFlags |= f, the flag word kept as the set of its bits
BitOr(dwFlags, f) == IF f = 0 THEN dwFlags ELSE dwFlags \cup {f}

\* int / int of C: the quotient is truncated toward zero (divisor > 0 here);
\* \div rounds down, so a negative dividend takes the quotient rounded up
CDiv(a, b) == IF a >= 0 THEN a \div b ELSE (a + b - 1) \div b

\* the conversion of an int to the unsigned 32-bit DWORD of mi.mouseData,
\* kept as its two 16-bit words <<high, low>>
ToDWORD(v) == <<(v \div WORD_RANGE) % WORD_RANGE, v % WORD_RANGE>>

\* the cast (WORD) of ki.wVk
ToWORD(v) == v % WORD_RANGE

(* ----------------------------------------------------------------- tables *)
extend_key_table ==
    <<VK_UP, VK_DOWN, VK_LEFT, VK_RIGHT, VK_HOME, VK_END,
      VK_PRIOR, VK_NEXT, VK_INSERT, VK_DELETE>>

KeyboardTypes == {EVENT_KEY_PRESSED, EVENT_KEY_RELEASED}

MouseTypes == {EVENT_MOUSE_PRESSED, EVENT_MOUSE_RELEASED, EVENT_MOUSE_WHEEL,
               EVENT_MOUSE_MOVED, EVENT_MOUSE_DRAGGED}

\* variant: case EVENT_KEY_TYPED missing, the tag falls to default
IgnoredTypes_WithoutKeyTyped ==
    {EVENT_MOUSE_CLICKED, EVENT_HOOK_ENABLED, EVENT_HOOK_DISABLED}

IgnoredTypes == {EVENT_MOUSE_CLICKED, EVENT_KEY_TYPED,
                 EVENT_HOOK_ENABLED, EVENT_HOOK_DISABLED}

(* ------------------------------------------------------------ the records *)
\* the pointer value NULL
NULL == [type |-> -1, wVk |-> 0, wScan |-> 0, time |-> 0, dx |-> 0, dy |-> 0,
         mouseData |-> <<0, 0>>, dwFlags |-> {}]

\* calloc(1, sizeof(INPUT)): a record of zero bytes (type 0 is INPUT_MOUSE)
calloc_INPUT == [type |-> 0, wVk |-> 0, wScan |-> 0, time |-> 0, dx |-> 0, dy |-> 0,
                 mouseData |-> <<0, 0>>, dwFlags |-> {}]

(* --------------------------------------------------- coordinate conversion *)
\* variant: the quotient rounded down instead of truncated
convert_with_floor_division(coordinate, screen_size) ==
    LET offset == IF coordinate > 0 THEN 1 ELSE -1
    IN  ((coordinate * MAX_WINDOWS_COORD_VALUE) \div screen_size) + offset

convert_to_relative_position(coordinate, screen_size) ==
    LET offset == IF coordinate > 0 THEN 1 ELSE -1
    IN  CDiv(coordinate * MAX_WINDOWS_COORD_VALUE, screen_size) + offset

(* ------------------------------------------------------- the first switch *)
\* for (i = 0; i < 10 && wVk == extend_key_table[i]; i++) dwFlags |= EXTENDEDKEY;
\* i counts from 0, the sequence is indexed from 1
RECURSIVE ExtendedKeyLoop(_, _, _)
ExtendedKeyLoop(i, wVk, dwFlags) ==
    IF i < Len(extend_key_table) /\ wVk = extend_key_table[i + 1]
    THEN ExtendedKeyLoop(i + 1, wVk, BitOr(dwFlags, KEYEVENTF_EXTENDEDKEY))
    ELSE dwFlags

\* the keyboard record of the first switch; vk is what scancode_to_keycode returned
KeyboardRecord(ev, vk) ==
    LET in == [calloc_INPUT EXCEPT !.type = INPUT_KEYBOARD, !.wScan = 0, !.time = 0,
                                   !.wVk = ToWORD(vk)]
    IN  IF ev.mask \cap MASK_SHIFT # {}
        THEN [in EXCEPT !.dwFlags = ExtendedKeyLoop(0, in.wVk, in.dwFlags)]
        ELSE in

\* variant: a failed lookup is not logged
LookupLog_Silent(wVk) == <<>>

\* the logger call after the lookup of the virtual key
LookupLog(wVk) == IF wVk = 0 THEN <<"WARN">> ELSE <<>>

\* the mouse record of the first switch
MouseRecord(ev, width, height) ==
    [calloc_INPUT EXCEPT !.type = INPUT_MOUSE, !.time = 0,
                         !.dx = convert_to_relative_position(ev.x, width),
                         !.dy = convert_to_relative_position(ev.y, height)]

\* switch (event->type), first: the record (or NULL) and the calls made
FirstSwitch(ev, width, height, vk, allocOk) ==
    IF ev.type \in KeyboardTypes THEN
        IF allocOk
        THEN [input |-> KeyboardRecord(ev, vk),
              trace |-> <<"calloc">> \o LookupLog(ToWORD(vk))]
        ELSE [input |-> NULL, trace |-> <<"calloc_NULL", "ERROR">>]
    ELSE IF ev.type \in MouseTypes THEN
        IF allocOk
        THEN [input |-> MouseRecord(ev, width, height), trace |-> <<"calloc">>]
        ELSE [input |-> NULL, trace |-> <<"calloc_NULL", "ERROR">>]
    ELSE IF ev.type \in IgnoredTypes THEN
        [input |-> NULL, trace |-> <<>>]
    ELSE
        [input |-> NULL, trace |-> <<"WARN">>]

(* ------------------------------------------------------ the second switch *)
\* variant: the fallback encoding off by one
ExtraButtonData_OffByOne(button) ==
    IF button = MOUSE_BUTTON4 THEN ToDWORD(XBUTTON1)
    ELSE IF button = MOUSE_BUTTON5 THEN ToDWORD(XBUTTON2)
    ELSE ToDWORD(button - 4)

\* mi.mouseData of a button beyond the third
ExtraButtonData(button) ==
    IF button = MOUSE_BUTTON4 THEN ToDWORD(XBUTTON1)
    ELSE IF button = MOUSE_BUTTON5 THEN ToDWORD(XBUTTON2)
    ELSE ToDWORD(button - 3)

\* case EVENT_MOUSE_PRESSED
MousePressed(in, button) ==
    LET f == BitOr(in.dwFlags, MOUSEEVENTF_XDOWN)
    IN  IF button = MOUSE_BUTTON1
        THEN [in EXCEPT !.dwFlags = BitOr(f, MOUSEEVENTF_LEFTDOWN)]
        ELSE IF button = MOUSE_BUTTON2
        THEN [in EXCEPT !.dwFlags = BitOr(f, MOUSEEVENTF_RIGHTDOWN)]
        ELSE IF button = MOUSE_BUTTON3
        THEN [in EXCEPT !.dwFlags = BitOr(f, MOUSEEVENTF_MIDDLEDOWN)]
        ELSE [in EXCEPT !.dwFlags = BitOr(f, MOUSEEVENTF_XDOWN),
                        !.mouseData = ExtraButtonData(button)]

\* case EVENT_MOUSE_RELEASED
MouseReleased(in, button) ==
    LET f == BitOr(in.dwFlags, MOUSEEVENTF_XUP)
    IN  IF button = MOUSE_BUTTON1
        THEN [in EXCEPT !.dwFlags = BitOr(f, MOUSEEVENTF_LEFTUP)]
        ELSE IF button = MOUSE_BUTTON2
        THEN [in EXCEPT !.dwFlags = BitOr(f, MOUSEEVENTF_RIGHTUP)]
        ELSE IF button = MOUSE_BUTTON3
        THEN [in EXCEPT !.dwFlags = BitOr(f, MOUSEEVENTF_MIDDLEUP)]
        ELSE [in EXCEPT !.dwFlags = BitOr(f, MOUSEEVENTF_XUP),
                        !.mouseData = ExtraButtonData(button)]

\* variant: the rotation left out of the product
WheelData_WithoutRotation(amount, rotation) == ToDWORD(amount * WHEEL_DELTA)

\* mi.mouseData of a wheel event
WheelData(amount, rotation) == ToDWORD(amount * rotation * WHEEL_DELTA)

\* case EVENT_MOUSE_WHEEL
MouseWheel(in, amount, rotation) ==
    [in EXCEPT !.dwFlags = BitOr(in.dwFlags, MOUSEEVENTF_WHEEL),
               !.mouseData = WheelData(amount, rotation)]

\* case EVENT_MOUSE_DRAGGED, case EVENT_MOUSE_MOVED
MouseMoved(in) ==
    [in EXCEPT !.dwFlags = BitOr(BitOr(in.dwFlags, MOUSEEVENTF_ABSOLUTE), MOUSEEVENTF_MOVE)]

\* switch (event->type), second: the record completed
SecondSwitch(ev, in) ==
    IF ev.type = EVENT_KEY_PRESSED
    THEN [in EXCEPT !.dwFlags = BitOr(in.dwFlags, KEYEVENTF_KEYDOWN)]
    ELSE IF ev.type = EVENT_KEY_RELEASED
    THEN [in EXCEPT !.dwFlags = BitOr(in.dwFlags, KEYEVENTF_KEYUP)]
    ELSE IF ev.type = EVENT_MOUSE_PRESSED THEN MousePressed(in, ev.button)
    ELSE IF ev.type = EVENT_MOUSE_RELEASED THEN MouseReleased(in, ev.button)
    ELSE IF ev.type = EVENT_MOUSE_WHEEL THEN MouseWheel(in, ev.amount, ev.rotation)
    ELSE IF ev.type \in {EVENT_MOUSE_DRAGGED, EVENT_MOUSE_MOVED} THEN MouseMoved(in)
    ELSE in

(* ------------------------------------------------------------- submission *)
\* variant: a failed SendInput is tried a second time
SendInputCalls_Retry(in, sendOk) ==
    IF sendOk
    THEN <<[nInputs |-> 1, rec |-> in, ret |-> 1]>>
    ELSE <<[nInputs |-> 1, rec |-> in, ret |-> 0], [nInputs |-> 1, rec |-> in, ret |-> 0]>>

\* variant: the test of SendInput's result inverted
SendInputLog_Inverted(sendOk) == IF sendOk THEN <<"ERROR">> ELSE <<>>

\* if (! SendInput(1, input, sizeof(INPUT))) logger(LOG_LEVEL_ERROR, ...)
SendInputCalls(in, sendOk) ==
    <<[nInputs |-> 1, rec |-> in, ret |-> IF sendOk THEN 1 ELSE 0]>>

SendInputLog(sendOk) == IF sendOk THEN <<>> ELSE <<"ERROR">>

\* if (input != NULL) { second switch; SendInput }
Submission(ev, in, sendOk) ==
    IF in # NULL
    THEN [submitted |-> SendInputCalls(SecondSwitch(ev, in), sendOk),
          input |-> SecondSwitch(ev, in),
          trace |-> [i \in 1..Len(SendInputCalls(SecondSwitch(ev, in), sendOk)) |-> "SendInput"]
                    \o SendInputLog(sendOk)]
    ELSE [submitted |-> <<>>, input |-> in, trace |-> <<>>]

\* records on the heap when the call returns: the function has no free()
HeapAfter(heap, in) == IF in # NULL THEN heap + 1 ELSE heap

(* ------------------------------------------------------------ the handler *)
hook_post_event(ev, width, height, vk, allocOk, sendOk) ==
    LET first == FirstSwitch(ev, width, height, vk, allocOk)
        sub == Submission(ev, first.input, sendOk)
    IN  /\ calls < MaxCalls
        /\ event' = ev
        /\ screen_width' = width
        /\ screen_height' = height
        /\ input' = sub.input
        /\ trace' = first.trace \o sub.trace
        /\ submitted' = sub.submitted
        /\ allocated' = HeapAfter(allocated, first.input)
        /\ submissions' = submissions + Len(sub.submitted)
        /\ expected' = expected +
               (IF ev.type \in KeyboardTypes \cup MouseTypes /\ allocOk THEN 1 ELSE 0)
        /\ calls' = calls + 1

(* ------------------------------------------------------------- the inputs *)
NoEvent == [type |-> 0, mask |-> {}, button |-> 0, x |-> 0, y |-> 0,
            amount |-> 0, rotation |-> 0]

KeyEvent(t, m) == [NoEvent EXCEPT !.type = t, !.mask = m]
ButtonEvent(t, b, x, y) == [NoEvent EXCEPT !.type = t, !.button = b, !.x = x, !.y = y]
WheelEvent(a, r, x, y) ==
    [NoEvent EXCEPT !.type = EVENT_MOUSE_WHEEL, !.amount = a, !.rotation = r,
                    !.x = x, !.y = y]
MotionEvent(t, x, y) == [NoEvent EXCEPT !.type = t, !.x = x, !.y = y]

Masks == {{}, {MASK_SHIFT_L}, {MASK_SHIFT_R}, {MASK_CTRL_L}, {MASK_SHIFT_L, MASK_CTRL_L}}

\* values scancode_to_keycode may return: the null sentinel, the ten keys of
\* extend_key_table and one key outside of it
ResolvedKeys == {0, VK_A} \cup {extend_key_table[i] : i \in 1..Len(extend_key_table)}

\* garbage tags: below and above the enumeration
OtherTypes == {0, EVENT_MOUSE_WHEEL + 1}

Buttons == 0..MaxButton
Amounts == 0..MaxAmount
Rotations == -MaxRotation..MaxRotation

\* the pointer positions and the screen of the behaviours of Spec
Xs == {-1, MaxCoord}
Ys == {0}
Widths == {MaxScreen}
Heights == {MaxScreen - 1}

\* calloc and SendInput as the environment lets them end
Outcomes == {<<TRUE, TRUE>>, <<TRUE, FALSE>>, <<FALSE, TRUE>>}
AllocOutcomes == {<<TRUE, TRUE>>, <<FALSE, TRUE>>}

(* ------------------------------------------------------------ the actions *)
Init ==
    /\ event = NoEvent
    /\ screen_width = 0
    /\ screen_height = 0
    /\ input = NULL
    /\ trace = <<>>
    /\ submitted = <<>>
    /\ allocated = 0
    /\ submissions = 0
    /\ expected = 0
    /\ calls = 0

PostKeyboardEvent ==
    \E t \in {EVENT_KEY_PRESSED, EVENT_KEY_RELEASED}, m \in Masks, vk \in ResolvedKeys, o \in Outcomes,
       w \in Widths, h \in Heights :
        hook_post_event(KeyEvent(t, m), w, h, vk, o[1], o[2])

PostMouseButtonEvent ==
    \E t \in {EVENT_MOUSE_PRESSED, EVENT_MOUSE_RELEASED}, b \in Buttons,
       x \in Xs, y \in Ys, o \in Outcomes, w \in Widths, h \in Heights :
        hook_post_event(ButtonEvent(t, b, x, y), w, h, 0, o[1], o[2])

PostMouseWheelEvent ==
    \E a \in Amounts, r \in Rotations, x \in Xs, y \in Ys, o \in Outcomes,
       w \in Widths, h \in Heights :
        hook_post_event(WheelEvent(a, r, x, y), w, h, 0, o[1], o[2])

PostMouseMotionEvent ==
    \E t \in {EVENT_MOUSE_MOVED, EVENT_MOUSE_DRAGGED}, x \in Xs, y \in Ys,
       o \in Outcomes, w \in Widths, h \in Heights :
        hook_post_event(MotionEvent(t, x, y), w, h, 0, o[1], o[2])

PostIgnoredEvent ==
    \E t \in {EVENT_MOUSE_CLICKED, EVENT_KEY_TYPED, EVENT_HOOK_ENABLED,
             EVENT_HOOK_DISABLED}, w \in Widths, h \in Heights :
        hook_post_event(KeyEvent(t, {}), w, h, 0, TRUE, TRUE)

PostOtherEvent ==
    \E t \in OtherTypes, w \in Widths, h \in Heights :
        hook_post_event(KeyEvent(t, {}), w, h, 0, TRUE, TRUE)

Next ==
    \/ PostKeyboardEvent
    \/ PostMouseButtonEvent
    \/ PostMouseWheelEvent
    \/ PostMouseMotionEvent
    \/ PostIgnoredEvent
    \/ PostOtherEvent

Spec == Init /\ [][Next]_vars

(* --------------------------------------- the conversion over a wider range *)
\* pointer positions: around the origin and the largest int16_t of
\* event->data.mouse.x with its negative, for which the int arithmetic of the
\* conversion is defined on every screen (-32768 on a screen of size 1 would
\* overflow the sum); screens: small ones, common ones and the largest uint16_t
WideCoords == (-MaxCoord..MaxCoord) \cup {-INT16_MAX, INT16_MAX}
WideScreens == (1..MaxScreen) \cup {1080, 1920, INT16_MAX + 1, UINT16_MAX}

PostMotionOverColumns ==
    \E x \in WideCoords, w \in WideScreens, y \in Ys, h \in Heights, o \in AllocOutcomes :
        hook_post_event(MotionEvent(EVENT_MOUSE_MOVED, x, y), w, h, 0, o[1], o[2])

PostMotionOverRows ==
    \E y \in WideCoords, h \in WideScreens, x \in Xs, w \in Widths, o \in AllocOutcomes :
        hook_post_event(MotionEvent(EVENT_MOUSE_DRAGGED, x, y), w, h, 0, o[1], o[2])

NextMotion ==
    \/ PostMotionOverColumns
    \/ PostMotionOverRows

SpecMotion == Init /\ [][NextMotion]_vars

(* ------------------------------------------------------------- properties *)
\* the record handed to SendInput by the last call
Sent == submitted[1].rec

\* occurrences of e in a sequence
Count(seq, e) == Cardinality({i \in 1..Len(seq) : seq[i] = e})

\* position of the first e in a sequence, 0 when there is none
RECURSIVE IndexFrom(_, _, _)
IndexFrom(seq, e, i) ==
    IF i > Len(seq) THEN 0 ELSE IF seq[i] = e THEN i ELSE IndexFrom(seq, e, i + 1)

\* a DWORD read back as the signed 32-bit value the system takes it for
Signed32(d) ==
    (IF d[1] >= WORD_RANGE \div 2 THEN d[1] - WORD_RANGE ELSE d[1]) * WORD_RANGE + d[2]

Sign(v) == IF v > 0 THEN 1 ELSE IF v < 0 THEN -1 ELSE 0

\* the mathematical floor of c * 65536 / s (s > 0)
FloorScaled(c, s) == (c * MAX_WINDOWS_COORD_VALUE) \div s

InTable(wVk) == \E i \in 1..Len(extend_key_table) : wVk = extend_key_table[i]

MouseRecordBuilt ==
    /\ event.type \in {EVENT_MOUSE_PRESSED, EVENT_MOUSE_RELEASED, EVENT_MOUSE_WHEEL,
                       EVENT_MOUSE_MOVED, EVENT_MOUSE_DRAGGED}
    /\ submitted # <<>>

\* C1: a submitted keyboard record has the extended-key flag exactly when the
\* mask holds a SHIFT bit and the virtual key is one of the ten keys of
\* extend_key_table.
C1_ExtendedKeyIffShiftAndTableKey ==
    (event.type \in {EVENT_KEY_PRESSED, EVENT_KEY_RELEASED} /\ submitted # <<>>) =>
        (KEYEVENTF_EXTENDEDKEY \in Sent.dwFlags
            <=> (event.mask \cap {MASK_SHIFT_L, MASK_SHIFT_R} # {} /\ InTable(Sent.wVk)))

\* C2 as stated: dx and dy are floor(c*65536/s) + 1 for a positive coordinate
\* and floor(c*65536/s) - 1 for a negative one.
C2_FloorPlusSignOffset ==
    MouseRecordBuilt =>
        /\ event.x > 0 => Sent.dx = FloorScaled(event.x, screen_width) + 1
        /\ event.x < 0 => Sent.dx = FloorScaled(event.x, screen_width) - 1
        /\ event.y > 0 => Sent.dy = FloorScaled(event.y, screen_height) + 1
        /\ event.y < 0 => Sent.dy = FloorScaled(event.y, screen_height) - 1

\* the value C2 amended gives for coordinate c on a screen of size s
AmendedPosition(c, s) ==
    IF c > 0 THEN FloorScaled(c, s) + 1
    ELSE IF (c * MAX_WINDOWS_COORD_VALUE) % s = 0 THEN FloorScaled(c, s) - 1
    ELSE FloorScaled(c, s)

\* C2 amended: dx and dy are floor(c*65536/s) + 1 for a positive coordinate; for
\* a negative one they are floor(c*65536/s) - 1 only when s divides c*65536, and
\* floor(c*65536/s) otherwise (the quotient is truncated toward zero).
C2_TruncatedPlusSignOffset ==
    MouseRecordBuilt =>
        /\ event.x # 0 => Sent.dx = AmendedPosition(event.x, screen_width)
        /\ event.y # 0 => Sent.dy = AmendedPosition(event.y, screen_height)

\* C2 witness: a negative coordinate whose scaled value the screen size does not
\* divide has been converted, next to a positive one
C2_Witness ==
    /\ MouseRecordBuilt
    /\ event.x = -INT16_MAX /\ screen_width = 1920 /\ Sent.dx = -1118447

\* C3: the button ordinal of a pressed or released event is encoded as flags
\* and auxiliary data: 1, 2, 3 give the left, right, middle flag of the
\* event's direction and auxiliary data 0; 4 and 5 give XBUTTON1 and XBUTTON2;
\* any other ordinal n gives n - 3; the XDOWN / XUP flag is set for every ordinal.
C3_ButtonEncoding ==
    (event.type \in {EVENT_MOUSE_PRESSED, EVENT_MOUSE_RELEASED} /\ submitted # <<>>) =>
        LET down == event.type = EVENT_MOUSE_PRESSED
            X == IF down THEN MOUSEEVENTF_XDOWN ELSE MOUSEEVENTF_XUP
            L == IF down THEN MOUSEEVENTF_LEFTDOWN ELSE MOUSEEVENTF_LEFTUP
            R == IF down THEN MOUSEEVENTF_RIGHTDOWN ELSE MOUSEEVENTF_RIGHTUP
            M == IF down THEN MOUSEEVENTF_MIDDLEDOWN ELSE MOUSEEVENTF_MIDDLEUP
            b == event.button
        IN  /\ X \in Sent.dwFlags
            /\ b = 1 => Sent.dwFlags = {X, L} /\ Sent.mouseData = <<0, 0>>
            /\ b = 2 => Sent.dwFlags = {X, R} /\ Sent.mouseData = <<0, 0>>
            /\ b = 3 => Sent.dwFlags = {X, M} /\ Sent.mouseData = <<0, 0>>
            /\ b = 4 => Sent.dwFlags = {X} /\ Sent.mouseData = <<0, XBUTTON1>>
            /\ b = 5 => Sent.dwFlags = {X} /\ Sent.mouseData = <<0, XBUTTON2>>
            /\ b \notin 1..5 => Sent.dwFlags = {X} /\ Signed32(Sent.mouseData) = b - 3
            /\ b > 5 => Sent.mouseData = <<0, b - 3>>

\* C3 witness: button 7 was released and went out with auxiliary data 4
C3_Witness ==
    /\ event.type = EVENT_MOUSE_RELEASED /\ event.button = 7
    /\ submitted # <<>>
    /\ Sent.mouseData = <<0, 4>> /\ Sent.dwFlags = {MOUSEEVENTF_XUP}

\* C4: a submitted wheel record has the wheel flag and no other, and auxiliary
\* data amount * rotation * WHEEL_DELTA, whose sign is that of the rotation
\* whenever amount > 0.
C4_WheelEncoding ==
    (event.type = EVENT_MOUSE_WHEEL /\ submitted # <<>>) =>
        /\ Sent.dwFlags = {MOUSEEVENTF_WHEEL}
        /\ Signed32(Sent.mouseData) = event.amount * event.rotation * 120
        /\ event.amount > 0 => Sign(Signed32(Sent.mouseData)) = Sign(event.rotation)
        /\ (event.amount = 1 /\ event.rotation = -1) => Signed32(Sent.mouseData) = -120
        /\ (event.amount = 3 /\ event.rotation = 1) => Signed32(Sent.mouseData) = 360

\* C4 witness: amount 1 and rotation -1 went out as -120 (0xFFFFFF88)
C4_Witness ==
    /\ event.type = EVENT_MOUSE_WHEEL /\ event.amount = 1 /\ event.rotation = -1
    /\ submitted # <<>>
    /\ Sent.mouseData = <<65535, 65416>>

\* C5: a call with the tag MouseClicked, KeyTyped, HookEnabled or HookDisabled,
\* after whatever calls, allocates nothing, logs nothing and does not call
\* SendInput.
C5_IgnoredTagsDoNothing ==
    [][(calls' = calls + 1 /\
        event'.type \in {EVENT_MOUSE_CLICKED, EVENT_KEY_TYPED,
                         EVENT_HOOK_ENABLED, EVENT_HOOK_DISABLED}) =>
          /\ trace' = <<>>
          /\ submitted' = <<>>
          /\ input' = NULL
          /\ submissions' = submissions
          /\ allocated' = allocated]_vars

\* C5 witness: KeyTyped was posted after a call that did submit a record
C5_Witness ==
    /\ calls = 2 /\ submissions = 1
    /\ event.type = EVENT_KEY_TYPED
    /\ trace = <<>>

\* C6: when the lookup of the virtual key gave 0 and the record was allocated,
\* the call logs one WARN, then calls SendInput once, with virtual key 0.
C6_UnresolvedKeyStillSubmitted ==
    (event.type \in {EVENT_KEY_PRESSED, EVENT_KEY_RELEASED}
        /\ input # NULL /\ input.wVk = 0) =>
        /\ Count(trace, "WARN") = 1
        /\ Count(trace, "SendInput") = 1
        /\ Len(submitted) = 1
        /\ Sent.type = INPUT_KEYBOARD /\ Sent.wVk = 0
        /\ IndexFrom(trace, "WARN", 1) < IndexFrom(trace, "SendInput", 1)

\* C6 witness: a key whose lookup gave 0 was posted and SendInput succeeded
C6_Witness ==
    /\ event.type = EVENT_KEY_RELEASED
    /\ trace = <<"calloc", "WARN", "SendInput">>
    /\ Len(submitted) = 1 /\ Sent.wVk = 0

\* C7: a call whose SendInput returned 0 logs one ERROR and calls SendInput
\* once; a call whose SendInput succeeded logs no ERROR.
C7_FailureLoggedOnceNoRetry ==
    /\ (submitted # <<>> /\ submitted[1].ret = 0) =>
          /\ Count(trace, "ERROR") = 1
          /\ Count(trace, "SendInput") = 1
          /\ Len(submitted) = 1
          /\ trace[Len(trace)] = "ERROR"
    /\ (submitted # <<>> /\ \A i \in 1..Len(submitted) : submitted[i].ret # 0) =>
          Count(trace, "ERROR") = 0

\* C7 witness: SendInput failed in the last call
C7_Witness ==
    /\ submitted # <<>> /\ submitted[1].ret = 0
    /\ trace = <<"calloc", "SendInput", "ERROR">>

\* C8: no INPUT record is still allocated when a call has returned.
C8_NoRecordStaysAllocated == allocated = 0

\* C9: a call with a supported tag whose allocation succeeded calls SendInput
\* once with one record; any other call does not call it; no call calls it
\* twice; over all calls the SendInput calls are as many as those calls.
C9_OneSubmissionPerEvent ==
    LET supported == event.type \in
            {EVENT_KEY_PRESSED, EVENT_KEY_RELEASED, EVENT_MOUSE_PRESSED,
             EVENT_MOUSE_RELEASED, EVENT_MOUSE_WHEEL, EVENT_MOUSE_MOVED,
             EVENT_MOUSE_DRAGGED}
        allocOk == Count(trace, "calloc") = 1
    IN  /\ Len(submitted) <= 1
        /\ Count(trace, "SendInput") = Len(submitted)
        /\ (calls > 0 /\ supported /\ allocOk) =>
              Len(submitted) = 1 /\ submitted[1].nInputs = 1
        /\ (~supported \/ ~allocOk) => Len(submitted) = 0
        /\ submissions = expected
        /\ submissions <= calls

\* C9 witness: two calls, one submission: a supported event went out and a
\* call whose allocation failed did not
C9_Witness ==
    /\ calls = 2 /\ submissions = 1
    /\ event.type = EVENT_MOUSE_WHEEL
    /\ trace = <<"calloc_NULL", "ERROR">>
    /\ submitted = <<>>

\* C10: an on-screen coordinate (0 <= c < s) is converted to a value within
\* 0..65535.
C10_OnScreenInAbsoluteRange ==
    MouseRecordBuilt =>
        /\ (0 <= event.x /\ event.x < screen_width) => Sent.dx \in 0..65535
        /\ (0 <= event.y /\ event.y < screen_height) => Sent.dy \in 0..65535

====
